---- MODULE Spec2Model ----
(***************************************************************************)
(* A model of pytorch/probability/distributions_.py: the Normal_           *)
(* distribution and the MixtureSameFamily distribution built on top of it. *)
(*                                                                         *)
(* Tensors are records [ok, err, shape, data]: shape is a sequence of axis *)
(* sizes, data maps every index tuple (1-based) to a value.  A failed      *)
(* tensor operation (a raised exception) is a record with ok = FALSE that  *)
(* every later operation passes on unchanged.  Floating point numbers are  *)
(* fixed-point values in thousandths, extended with NaN and +/-Inf.        *)
(***************************************************************************)
EXTENDS Integers, Sequences, FiniteSets, TLC

VARIABLES
    normal,     \* the Normal_ object the caller holds, NoObject before it is built
    mixture,    \* the MixtureSameFamily object the caller holds, NoMixture before
    last        \* the call in progress: its name, arguments and outcome

vars == <<normal, mixture, last>>

(* ----------------------------- bounds -------------------------------- *)

\* Largest axis size of a distribution parameter.
MaxDim == 2

\* Largest number of samples asked for, or held by a value, along one axis.
MaxSample == 2

(* ------------------------ extended real values ------------------------ *)

Milli(n) == n * 1000

Fin(n) == [k |-> "fin", v |-> n]
NaN == [k |-> "nan", v |-> 0]
PInf == [k |-> "inf", v |-> 1]
NInf == [k |-> "inf", v |-> -1]

IsFin(a) == a.k = "fin"
IsNaN(a) == a.k = "nan"
IsInf(a) == a.k = "inf"

Sign(n) == IF n > 0 THEN 1 ELSE IF n < 0 THEN -1 ELSE 0
Abs(n) == IF n < 0 THEN -n ELSE n
Max(a, b) == IF a >= b THEN a ELSE b
Min(a, b) == IF a <= b THEN a ELSE b

InfOf(s) == IF s > 0 THEN PInf ELSE NInf

\* Integer division rounding toward zero, as a float product or quotient
\* would be rounded symmetrically.
QuotZ(a, b) == Sign(a) * Sign(b) * (Abs(a) \div Abs(b))

NegV(a) ==
    CASE IsFin(a) -> Fin(-a.v)
      [] IsInf(a) -> InfOf(-a.v)
      [] OTHER -> NaN

AddV(a, b) ==
    CASE IsNaN(a) \/ IsNaN(b) -> NaN
      [] IsInf(a) /\ IsInf(b) -> IF a.v = b.v THEN a ELSE NaN
      [] IsInf(a) -> a
      [] IsInf(b) -> b
      [] OTHER -> Fin(a.v + b.v)

SubV(a, b) == AddV(a, NegV(b))

MulV(a, b) ==
    CASE IsNaN(a) \/ IsNaN(b) -> NaN
      [] IsInf(a) \/ IsInf(b) ->
            IF Sign(a.v) * Sign(b.v) = 0 THEN NaN ELSE InfOf(Sign(a.v) * Sign(b.v))
      [] OTHER -> Fin(QuotZ(a.v * b.v, Milli(1)))

DivV(a, b) ==
    CASE IsNaN(a) \/ IsNaN(b) -> NaN
      [] IsInf(a) /\ IsInf(b) -> NaN
      [] IsInf(a) -> InfOf(a.v * (IF b.v < 0 THEN -1 ELSE 1))
      [] IsInf(b) -> Fin(0)
      [] b.v = 0 -> IF a.v = 0 THEN NaN ELSE InfOf(a.v)
      [] OTHER -> Fin(QuotZ(a.v * Milli(1), b.v))

\* x ** 2
SquareV(a) == MulV(a, a)

\* Natural logarithm, tabulated on the scales the model uses.
LogV(a) ==
    CASE IsNaN(a) -> NaN
      [] IsInf(a) -> IF a.v > 0 THEN PInf ELSE NaN
      [] a.v < 0 -> NaN
      [] a.v = 0 -> NInf
      [] a.v = 500 -> Fin(-693)
      [] a.v = 1000 -> Fin(0)
      [] a.v = 2000 -> Fin(693)
      [] a.v = 3000 -> Fin(1099)
      [] OTHER -> Fin(a.v - 1000)

\* torch.erf, piecewise linear through erf(0.5), erf(1), erf(2).
ErfV(a) ==
    CASE IsNaN(a) -> NaN
      [] IsInf(a) -> Fin(Sign(a.v) * 1000)
      [] Abs(a.v) <= 500 -> Fin(QuotZ(a.v * 1041, 1000))
      [] Abs(a.v) <= 1000 -> Fin(Sign(a.v) * (520 + QuotZ((Abs(a.v) - 500) * 645, 1000)))
      [] Abs(a.v) <= 2000 -> Fin(Sign(a.v) * (843 + QuotZ((Abs(a.v) - 1000) * 152, 1000)))
      [] OTHER -> Fin(Sign(a.v) * 1000)

\* torch.erfinv: NaN outside [-1, 1], +/-Inf at +/-1.
ErfinvV(a) ==
    CASE IsNaN(a) -> NaN
      [] IsInf(a) -> NaN
      [] Abs(a.v) > 1000 -> NaN
      [] Abs(a.v) = 1000 -> InfOf(a.v)
      [] Abs(a.v) = 500 -> Fin(Sign(a.v) * 477)
      [] OTHER -> Fin(QuotZ(a.v * 886, 1000))

(* ------------------------------ tensors ------------------------------- *)

RECURSIVE Indices(_)
Indices(sh) ==
    IF sh = <<>> THEN {<<>>}
    ELSE LET n == Len(sh)
         IN  {Append(p, i) : p \in Indices(SubSeq(sh, 1, n - 1)), i \in 1..sh[n]}

Tensor(sh, d) == [ok |-> TRUE, err |-> "", shape |-> sh, data |-> d]
Raise(e) == [ok |-> FALSE, err |-> e, shape |-> <<>>, data |-> <<>>]

Rank(t) == Len(t.shape)

\* A 0-dimensional tensor holding one number.
Scalar(a) == Tensor(<<>>, [i \in {<<>>} |-> a])

\* torch.full(sh, a)
Full(sh, a) == Tensor(sh, [i \in Indices(sh) |-> a])

\* The row-major position of an index, 0-based.
RECURSIVE Linear(_, _)
Linear(sh, idx) ==
    IF sh = <<>> THEN 0
    ELSE LET n == Len(sh)
         IN  Linear(SubSeq(sh, 1, n - 1), SubSeq(idx, 1, n - 1)) * sh[n] + (idx[n] - 1)

DimFromRight(sh, k) == IF k <= Len(sh) THEN sh[Len(sh) - k + 1] ELSE 1

\* NumPy-style broadcasting of two shapes, aligned at the trailing axis.
Broadcastable(a, b) ==
    \A k \in 1..Min(Len(a), Len(b)) :
        \/ DimFromRight(a, k) = DimFromRight(b, k)
        \/ DimFromRight(a, k) = 1
        \/ DimFromRight(b, k) = 1

BroadcastShape(a, b) ==
    LET n == Max(Len(a), Len(b))
    IN  [i \in 1..n |-> Max(DimFromRight(a, n - i + 1), DimFromRight(b, n - i + 1))]

\* The index of the source element that position idx of a broadcast reads.
BroadcastIndex(sh, idx) ==
    [i \in 1..Len(sh) |-> IF sh[i] = 1 THEN 1 ELSE idx[Len(idx) - Len(sh) + i]]

\* Tensor.expand(sh)
Expand(t, sh) ==
    IF ~t.ok THEN t
    ELSE IF Len(sh) < Rank(t) \/ ~Broadcastable(t.shape, sh)
              \/ BroadcastShape(t.shape, sh) # sh
         THEN Raise("RuntimeError")
         ELSE Tensor(sh, [idx \in Indices(sh) |-> t.data[BroadcastIndex(t.shape, idx)]])

\* The elementwise functions of one number, by name.
Apply1(op, a) ==
    CASE op = "log" -> LogV(a)
      [] op = "square" -> SquareV(a)
      [] op = "reciprocal" -> DivV(Fin(Milli(1)), a)
      [] op = "erf" -> ErfV(a)
      [] op = "erfinv" -> ErfinvV(a)

\* The elementwise functions of two numbers, by name.
Apply2(op, a, b) ==
    CASE op = "add" -> AddV(a, b)
      [] op = "sub" -> SubV(a, b)
      [] op = "mul" -> MulV(a, b)
      [] op = "div" -> DivV(a, b)

\* An elementwise unary operation.
Map1(op, t) ==
    IF ~t.ok THEN t
    ELSE Tensor(t.shape, [idx \in Indices(t.shape) |-> Apply1(op, t.data[idx])])

\* An elementwise binary operation with broadcasting.
Map2(op, a, b) ==
    IF ~a.ok THEN a
    ELSE IF ~b.ok THEN b
    ELSE IF ~Broadcastable(a.shape, b.shape) THEN Raise("RuntimeError")
    ELSE LET sh == BroadcastShape(a.shape, b.shape)
         IN  Tensor(sh, [idx \in Indices(sh) |->
                 Apply2(op, a.data[BroadcastIndex(a.shape, idx)],
                            b.data[BroadcastIndex(b.shape, idx)])])

\* Tensor.permute(perm), perm a sequence of 0-based axes.
Permute(t, perm) ==
    IF ~t.ok THEN t
    ELSE IF Len(perm) # Rank(t) THEN Raise("RuntimeError")
    ELSE LET sh == [i \in 1..Len(perm) |-> t.shape[perm[i] + 1]]
         IN  Tensor(sh, [idx \in Indices(sh) |->
                 t.data[[j \in 1..Len(perm) |->
                     idx[CHOOSE i \in 1..Len(perm) : perm[i] + 1 = j]]]])

\* Indexing with None: a new axis of size 1 before 1-based position pos.
InsertAxis(t, pos) ==
    IF ~t.ok THEN t
    ELSE LET n == Rank(t)
             sh == [i \in 1..(n + 1) |->
                       IF i < pos THEN t.shape[i]
                       ELSE IF i = pos THEN 1 ELSE t.shape[i - 1]]
         IN  Tensor(sh, [idx \in Indices(sh) |->
                 t.data[[i \in 1..n |-> IF i < pos THEN idx[i] ELSE idx[i + 1]]]])

\* Tensor.repeat(reps), one repeat count per axis.
Repeat(t, reps) ==
    IF ~t.ok THEN t
    ELSE IF Len(reps) < Rank(t) THEN Raise("RuntimeError")
    ELSE LET n == Len(reps)
             lead == n - Rank(t)
             old == [i \in 1..n |-> IF i <= lead THEN 1 ELSE t.shape[i - lead]]
             sh == [i \in 1..n |-> old[i] * reps[i]]
         IN  Tensor(sh, [idx \in Indices(sh) |->
                 t.data[[i \in 1..Rank(t) |->
                     ((idx[i + lead] - 1) % old[i + lead]) + 1]]])

RECURSIVE SumSeq(_)
SumSeq(s) ==
    IF s = <<>> THEN Fin(0) ELSE AddV(SumSeq(SubSeq(s, 1, Len(s) - 1)), s[Len(s)])

\* log(sum(exp(s))): of one term it is the term; of several it is kept as the
\* sequence of its terms.
LogSumExpV(s) ==
    IF Len(s) = 1 THEN s[1] ELSE [k |-> "lse", v |-> 0, terms |-> s]

Combine(agg, s) == IF agg = "sum" THEN SumSeq(s) ELSE LogSumExpV(s)

\* Removes the axis k-th from the right, combining the values along it by
\* "sum" or by "logsumexp".
Reduce(agg, t, k) ==
    IF ~t.ok THEN t
    ELSE IF k > Rank(t) THEN Raise("IndexError")
    ELSE LET n == Rank(t)
             p == n - k + 1
             sh == [i \in 1..(n - 1) |-> IF i < p THEN t.shape[i] ELSE t.shape[i + 1]]
         IN  Tensor(sh, [idx \in Indices(sh) |->
                 Combine(agg, [m \in 1..t.shape[p] |->
                     t.data[[i \in 1..n |->
                         IF i < p THEN idx[i]
                         ELSE IF i = p THEN m ELSE idx[i - 1]]]])])

\* torch.sum(t, dim=-1)
SumLast(t) == Reduce("sum", t, 1)

\* The reduction taken over the last axis instead.
LogSumExpLastDim(t) == Reduce("logsumexp", t, 1)

\* torch.logsumexp(t, dim=-2)
LogSumExpDim(t) == Reduce("logsumexp", t, 2)

(* ------------------------- torch.distributions ------------------------ *)

\* constraints.real.check: false for NaN.
IsReal(a) == ~IsNaN(a)

\* constraints.positive.check: value > 0.
IsPositive(a) == (IsInf(a) /\ a.v > 0) \/ (IsFin(a) /\ a.v > 0)

AllReal(t) == \A idx \in DOMAIN t.data : IsReal(t.data[idx])
AllPositive(t) == \A idx \in DOMAIN t.data : IsPositive(t.data[idx])

\* A constructor argument: a Python number or a tensor.
Number(n) == [num |-> TRUE, t |-> Scalar(Fin(n))]
AsArg(t) == [num |-> FALSE, t |-> t]

\* torch.distributions.utils.broadcast_all(loc, scale)
BroadcastAll(a, b) ==
    IF ~Broadcastable(a.t.shape, b.t.shape)
    THEN <<Raise("RuntimeError"), Raise("RuntimeError")>>
    ELSE LET sh == BroadcastShape(a.t.shape, b.t.shape)
         IN  <<Expand(a.t, sh), Expand(b.t, sh)>>

\* Distribution.__init__ of a Normal_: sets the flag when one is given and
\* checks arg_constraints when the flag is set.  ran records that the check ran.
DistributionInit(loc, scale, batch_shape, validate_args) ==
    IF validate_args /\ ~(AllReal(loc) /\ AllPositive(scale))
    THEN [ok |-> FALSE, err |-> "ValueError", ran |-> TRUE]
    ELSE [ok |-> TRUE, err |-> "", ran |-> validate_args]

\* Normal_.support
Support(t) == AllReal(t)

\* Distribution._validate_sample(value) of a Normal_, whose event shape is
\* empty.
ValidateSample(batch_shape, value) ==
    /\ \A k \in 1..Min(Len(value.shape), Len(batch_shape)) :
          \/ DimFromRight(value.shape, k) = 1
          \/ DimFromRight(batch_shape, k) = 1
          \/ DimFromRight(value.shape, k) = DimFromRight(batch_shape, k)
    /\ Support(value)

\* Distribution._extended_shape(sample_shape)
ExtendedShape(d, sample_shape) == sample_shape \o d.batch_shape \o d.event_shape

(* ------------------------------- Normal_ ------------------------------ *)

NoObject == [built |-> FALSE, loc |-> Raise(""), scale |-> Raise(""),
             batch_shape |-> <<>>, event_shape |-> <<>>, validate_args |-> FALSE]

\* A constructor that hands validate_args=False to Distribution.__init__, as
\* expand does.
NormalInitUnvalidated(loc, scale, validate_args) ==
    LET both == BroadcastAll(loc, scale)
        batch_shape == IF loc.num /\ scale.num THEN <<>> ELSE both[1].shape
        base == IF both[1].ok
                THEN DistributionInit(both[1], both[2], batch_shape, FALSE)
                ELSE [ok |-> FALSE, err |-> both[1].err, ran |-> FALSE]
    IN  [ok |-> base.ok, err |-> base.err, ran |-> base.ran,
         obj |-> IF base.ok
                 THEN [built |-> TRUE, loc |-> both[1], scale |-> both[2],
                       batch_shape |-> batch_shape, event_shape |-> <<>>,
                       validate_args |-> validate_args]
                 ELSE NoObject]

\* Normal_.__init__(loc, scale, validate_args): the outcome and the new object.
NormalInit(loc, scale, validate_args) ==
    LET both == BroadcastAll(loc, scale)
        batch_shape == IF loc.num /\ scale.num THEN <<>> ELSE both[1].shape
        base == IF both[1].ok
                THEN DistributionInit(both[1], both[2], batch_shape, validate_args)
                ELSE [ok |-> FALSE, err |-> both[1].err, ran |-> FALSE]
    IN  [ok |-> base.ok, err |-> base.err, ran |-> base.ran,
         obj |-> IF base.ok
                 THEN [built |-> TRUE, loc |-> both[1], scale |-> both[2],
                       batch_shape |-> batch_shape, event_shape |-> <<>>,
                       validate_args |-> validate_args]
                 ELSE NoObject]

\* An expand that fills in the receiver itself.
GetCheckedInstanceSelf == "self"

\* An expand that hands the receiver's flag to Distribution.__init__, which
\* then validates the arguments again.
NormalExpandRevalidating(self, batch_shape) ==
    LET loc == Expand(self.loc, batch_shape)
        scale == Expand(self.scale, batch_shape)
        base == IF loc.ok /\ scale.ok
                THEN DistributionInit(loc, scale, batch_shape, self.validate_args)
                ELSE [ok |-> FALSE, err |-> "RuntimeError", ran |-> FALSE]
        new == [built |-> TRUE, loc |-> loc, scale |-> scale,
                batch_shape |-> batch_shape, event_shape |-> <<>>,
                validate_args |-> self.validate_args]
    IN  [ok |-> base.ok, err |-> base.err, ran |-> base.ran,
         obj |-> IF base.ok THEN new ELSE NoObject,
         self |-> self]

\* self._get_checked_instance(Normal_, None): the object expand fills in, a
\* fresh one ("new") and never the receiver ("self").
GetCheckedInstance == "new"

\* Normal_.expand(batch_shape): the outcome, the object returned and the
\* receiver as the call leaves it.
NormalExpand(self, batch_shape) ==
    LET target == GetCheckedInstance
        loc == Expand(self.loc, batch_shape)
        scale == Expand(self.scale, batch_shape)
        base == IF loc.ok /\ scale.ok
                THEN DistributionInit(loc, scale, batch_shape, FALSE)
                ELSE [ok |-> FALSE, err |-> "RuntimeError", ran |-> FALSE]
        new == [built |-> TRUE, loc |-> loc, scale |-> scale,
                batch_shape |-> batch_shape, event_shape |-> <<>>,
                validate_args |-> self.validate_args]
    IN  [ok |-> base.ok, err |-> base.err, ran |-> base.ran,
         obj |-> IF base.ok THEN new ELSE NoObject,
         self |-> IF target = "self" /\ loc.ok /\ scale.ok
                  THEN (IF base.ok THEN new
                        ELSE [self EXCEPT !.loc = loc, !.scale = scale])
                  ELSE self]

\* torch.normal(mean, std) with the noise eps: std must not be negative.
TorchNormal(mean, std, eps) ==
    IF mean.ok /\ std.ok /\ (\E idx \in DOMAIN std.data : std.data[idx].v < 0)
    THEN Raise("RuntimeError")
    ELSE Map2("add", mean, Map2("mul", eps, std))

\* Normal_.sample(sample_shape), eps the noise drawn for the extended shape.
NormalSample(self, sample_shape, eps) ==
    LET shape == ExtendedShape(self, sample_shape)
    IN  TorchNormal(Expand(self.loc, shape), Expand(self.scale, shape), eps)

\* Normal_.rsample(sample_shape), eps the standard normal noise.
NormalRsample(self, sample_shape, eps) ==
    Map2("add", self.loc, Map2("mul", eps, self.scale))

\* Normal_.log_prob(value)
NormalLogProb(self, value) ==
    IF ~value.ok THEN value
    ELSE IF self.validate_args /\ ~ValidateSample(self.batch_shape, value)
    THEN Raise("ValueError")
    ELSE LET log_scale == Map1("log", self.scale)
             z == Map2("div", Map2("sub", value, self.loc), self.scale)
             quad == Map2("mul", Scalar(Fin(-500)), Map1("square", z))
         IN  Map2("sub", Map2("sub", quad, log_scale), Scalar(Fin(919)))

\* Normal_.cdf(value)
NormalCdf(self, value) ==
    IF ~value.ok THEN value
    ELSE IF self.validate_args /\ ~ValidateSample(self.batch_shape, value)
    THEN Raise("ValueError")
    ELSE LET recip == Map1("reciprocal", self.scale)
             z == Map2("div", Map2("mul", Map2("sub", value, self.loc), recip),
                       Scalar(Fin(1414)))
         IN  Map2("mul", Scalar(Fin(500)),
                  Map2("add", Scalar(Fin(Milli(1))), Map1("erf", z)))

\* Normal_.icdf(value)
NormalIcdf(self, value) ==
    IF ~value.ok THEN value
    ELSE IF self.validate_args /\ ~ValidateSample(self.batch_shape, value)
    THEN Raise("ValueError")
    ELSE LET arg == Map2("sub", Map2("mul", Scalar(Fin(Milli(2))), value),
                         Scalar(Fin(Milli(1))))
         IN  Map2("add", self.loc,
                  Map2("mul", Map2("mul", self.scale, Map1("erfinv", arg)),
                       Scalar(Fin(1414))))

\* Normal_.entropy()
NormalEntropy(self) ==
    Map2("add", Scalar(Fin(500 + 919)), Map1("log", self.scale))

(* ---------------------- the mixture distribution ---------------------- *)

\* Natural logarithm of a small positive integer, in thousandths.
LnInt(n) ==
    CASE n = 1 -> 0
      [] n = 2 -> 693
      [] n = 3 -> 1099
      [] n = 4 -> 1386
      [] n = 5 -> 1609
      [] n = 6 -> 1792
      [] n = 7 -> 1946
      [] n = 8 -> 2079
      [] n = 9 -> 2197
      [] n = 10 -> 2303
      [] n = 11 -> 2398
      [] OTHER -> 2485

RECURSIVE SumInts(_)
SumInts(s) == IF s = <<>> THEN 0 ELSE SumInts(SubSeq(s, 1, Len(s) - 1)) + s[Len(s)]

\* A one-hot categorical distribution over the last axis of its weights: the
\* mixture_distribution handed to MixtureSameFamily.
Categorical(weights) ==
    [weights |-> weights,
     batch_shape |-> SubSeq(weights.shape, 1, Rank(weights) - 1),
     outcomes |-> weights.shape[Rank(weights)]]

\* mixture_distribution.logits: the normalised log-weights.
CategoricalLogits(cat) ==
    LET w == cat.weights
        n == Rank(w)
        total(idx) == SumInts([m \in 1..cat.outcomes |-> w.data[[idx EXCEPT ![n] = m]]])
    IN  Tensor(w.shape, [idx \in Indices(w.shape) |->
            Fin(LnInt(w.data[idx]) - LnInt(total(idx)))])

\* mixture_distribution.sample(sample_shape): a one-hot mask of shape
\* sample_shape ++ batch_shape ++ (outcomes,); seed decides the draws.
CategoricalSample(cat, sample_shape, seed) ==
    LET cells == sample_shape \o cat.batch_shape
        sh == cells \o <<cat.outcomes>>
        n == Len(sh)
        drawn(idx) == ((seed + Linear(cells, SubSeq(idx, 1, n - 1))) % cat.outcomes) + 1
    IN  Tensor(sh, [idx \in Indices(sh) |->
            IF idx[n] = drawn(idx) THEN Fin(Milli(1)) ELSE Fin(0)])

NoMixture == [built |-> FALSE, mixture_distribution |-> Categorical(Full(<<1>>, 1)),
              components_distribution |-> "", batch_shape |-> <<>>, event_shape |-> <<>>]

\* MixtureSameFamily.__init__(mixture_distribution, components_distribution):
\* components is the object the reference ref names.
MixtureInit(cat, ref, components) ==
    [built |-> TRUE, mixture_distribution |-> cat, components_distribution |-> ref,
     batch_shape |-> components.batch_shape, event_shape |-> components.event_shape]

\* The new axis placed before the last axis instead: mixture_mask[..., None, :].
PadMaskBeforeLast(mask) == IF Rank(mask) = 3 THEN InsertAxis(mask, 3) ELSE mask

\* mixture_mask[:, None, ...] when the mask has 3 axes.
PadMask(mask) == IF Rank(mask) = 3 THEN InsertAxis(mask, 2) ELSE mask

\* MixtureSameFamily.sample(sample_shape)
MixtureSample(self, components, sample_shape, seed, eps) ==
    LET mixture_mask == PadMask(CategoricalSample(self.mixture_distribution,
                                                  sample_shape, seed))
        components_samples == NormalRsample(components, sample_shape, eps)
    IN  SumLast(Map2("mul", mixture_mask, components_samples))

\* The value taken as it comes, without the permute.
PermuteValueSkipped(value) == value

\* value.permute(2, 0, 1)
PermuteValue(value) == Permute(value, <<2, 0, 1>>)

\* value[..., None].repeat(1, 1, 1, self.batch_shape[-1])
PadValue(self, value) ==
    IF ~value.ok THEN value
    ELSE IF self.batch_shape = <<>> THEN Raise("IndexError")
    ELSE Repeat(InsertAxis(value, Rank(value) + 1),
                <<1, 1, 1, self.batch_shape[Len(self.batch_shape)]>>)

\* MixtureSameFamily.log_prob(value)
MixtureLogProb(self, components, value) ==
    LET padded == PadValue(self, PermuteValue(value))
        log_prob_components == Permute(NormalLogProb(components, padded), <<1, 2, 3, 0>>)
        logits == CategoricalLogits(self.mixture_distribution)
        log_prob_mixture == InsertAxis(logits, Rank(logits) + 1)
    IN  IF ~log_prob_components.ok THEN log_prob_components
        ELSE LogSumExpDim(Map2("add", log_prob_mixture, log_prob_components))

(* ------------------------------- inputs ------------------------------- *)

\* Every shape of n axes with sizes up to MaxDim.
Shapes(n) == [1..n -> 1..MaxDim]

\* torch.arange(numel).reshape(sh), as floats.
Arange(sh) == Tensor(sh, [idx \in Indices(sh) |-> Fin(Milli(Linear(sh, idx)))])

\* A tensor of shape sh whose elements cycle through the sequence vals,
\* starting at position seed.
Cycle(sh, vals, seed) ==
    Tensor(sh, [idx \in Indices(sh) |-> vals[((Linear(sh, idx) + seed) % Len(vals)) + 1]])

\* The (loc, scale) pairs a Normal_ is built from.
InitArgs ==
    {<<Number(0), Number(Milli(1))>>,
     <<Number(Milli(1)), Number(0)>>,
     <<Number(0), Number(-Milli(1))>>,
     <<AsArg(Arange(<<MaxDim>>)), AsArg(Full(<<MaxDim + 1>>, Fin(Milli(2))))>>,
     <<AsArg(Arange(<<MaxDim, 1>>)), AsArg(Full(<<MaxDim + 1>>, Fin(Milli(2))))>>,
     <<Number(0), AsArg(Arange(<<MaxDim>>))>>,
     <<AsArg(Scalar(Fin(0))), AsArg(Scalar(Fin(Milli(2))))>>}
    \cup {<<AsArg(Arange(sh)), Number(Milli(1))>> : sh \in Shapes(1) \cup Shapes(2) \cup Shapes(3)}
    \cup {<<AsArg(Arange(sh)), AsArg(Full(sh, Fin(Milli(2))))>> : sh \in Shapes(2)}

SampleShapes == {<<>>} \cup {<<n>> : n \in 1..MaxSample}
Seeds == {0, 1}

\* The noise of one draw: -1, 0 and 1 in turn.
Noise(sh, seed) == Cycle(sh, <<Fin(-Milli(1)), Fin(0), Fin(Milli(1))>>, seed)

\* The values a Normal_ with batch shape bs is probed with.
Probes(bs) ==
    {Scalar(Fin(500)), Scalar(Fin(0)), Scalar(Fin(1500)), Scalar(NaN),
     Cycle(bs, <<Fin(250), Fin(500), Fin(750)>>, 0),
     Cycle(<<MaxSample>> \o bs, <<Fin(500), Fin(-500), Fin(Milli(1))>>, 0),
     Full(<<MaxDim + 1>>, Fin(500))}

ExpandShapes(bs) ==
    {<<MaxSample>> \o bs, bs, bs \o <<MaxSample>>}
    \cup (IF bs = <<>> THEN {} ELSE {[bs EXCEPT ![Len(bs)] = MaxDim + 1]})

\* The mixture distributions tried with components of batch shape bs: every
\* number of outcomes up to MaxDim, over the batch axes before the last and,
\* for weights shared by the leading batch axis, over those after the first.
MixtureChoices(bs) ==
    {Categorical(Cycle(SubSeq(bs, 1, Len(bs) - 1) \o <<k>>, <<1, 2, 3>>, 0)) :
        k \in 1..MaxDim}
    \cup {Categorical(Cycle(SubSeq(bs, 2, Len(bs) - 1) \o <<k>>, <<1, 2, 3>>, 0)) :
        k \in (IF Len(bs) = 3 THEN {bs[3]} ELSE {})}

\* The values a mixture with batch shape bs is probed with.
MixtureValues(bs) ==
    LET b == IF Len(bs) >= 3 THEN bs[Len(bs) - 2] ELSE 1
        d == IF Len(bs) >= 2 THEN bs[Len(bs) - 1] ELSE 1
        n == MaxSample
    IN  {Arange(<<b, d, k>>) : k \in 1..n}
        \cup {Arange(sh) : sh \in {<<1, d, n>>, <<b, 1, n>>, <<b + 1, d, n>>,
                                    <<b, d + 1, n>>, <<b, d>>, <<b, d, n, 1>>}}

(* ------------------------------ the calls ----------------------------- *)

Idle == [op |-> "idle"]

Init ==
    /\ normal = NoObject
    /\ mixture = NoMixture
    /\ last = Idle

\* Normal_(loc, scale, validate_args)
CallNormalInit ==
    /\ last.op = "idle"
    /\ ~normal.built
    /\ \E args \in InitArgs, validate_args \in BOOLEAN :
          LET r == NormalInit(args[1], args[2], validate_args)
          IN  /\ normal' = r.obj
              /\ last' = [op |-> "init", loc |-> args[1], scale |-> args[2],
                          validate_args |-> validate_args, raised |-> ~r.ok,
                          err |-> r.err, ran |-> r.ran]
    /\ UNCHANGED mixture

\* normal.expand(batch_shape)
CallExpand ==
    /\ last.op = "idle"
    /\ normal.built
    /\ \E batch_shape \in ExpandShapes(normal.batch_shape) :
          LET r == NormalExpand(normal, batch_shape)
          IN  /\ normal' = r.self
              /\ last' = [op |-> "expand", batch_shape |-> batch_shape,
                          raised |-> ~r.ok, err |-> r.err, ran |-> r.ran, new |-> r.obj]
    /\ UNCHANGED mixture

\* normal.sample(sample_shape)
CallSample ==
    /\ last.op = "idle"
    /\ normal.built
    /\ \E sample_shape \in SampleShapes, seed \in Seeds :
          last' = [op |-> "sample", sample_shape |-> sample_shape,
                   out |-> NormalSample(normal, sample_shape,
                              Noise(ExtendedShape(normal, sample_shape), seed))]
    /\ UNCHANGED <<normal, mixture>>

\* normal.rsample(sample_shape)
CallRsample ==
    /\ last.op = "idle"
    /\ normal.built
    /\ \E sample_shape \in SampleShapes, seed \in Seeds :
          last' = [op |-> "rsample", sample_shape |-> sample_shape,
                   out |-> NormalRsample(normal, sample_shape,
                              Noise(ExtendedShape(normal, sample_shape), seed))]
    /\ UNCHANGED <<normal, mixture>>

\* normal.log_prob(value)
CallLogProb ==
    /\ last.op = "idle"
    /\ normal.built
    /\ \E value \in Probes(normal.batch_shape) :
          last' = [op |-> "log_prob", value |-> value, out |-> NormalLogProb(normal, value)]
    /\ UNCHANGED <<normal, mixture>>

\* normal.cdf(value)
CallCdf ==
    /\ last.op = "idle"
    /\ normal.built
    /\ \E value \in Probes(normal.batch_shape) :
          last' = [op |-> "cdf", value |-> value, out |-> NormalCdf(normal, value)]
    /\ UNCHANGED <<normal, mixture>>

\* normal.icdf(value)
CallIcdf ==
    /\ last.op = "idle"
    /\ normal.built
    /\ \E value \in Probes(normal.batch_shape) :
          last' = [op |-> "icdf", value |-> value, out |-> NormalIcdf(normal, value)]
    /\ UNCHANGED <<normal, mixture>>

\* normal.entropy()
CallEntropy ==
    /\ last.op = "idle"
    /\ normal.built
    /\ last' = [op |-> "entropy", out |-> NormalEntropy(normal)]
    /\ UNCHANGED <<normal, mixture>>

\* The object a mixture's components_distribution refers to.
Deref(ref) == normal

\* MixtureSameFamily(mixture_distribution, normal)
CallMixtureInit ==
    /\ last.op = "idle"
    /\ normal.built
    /\ ~mixture.built
    /\ \E cat \in MixtureChoices(normal.batch_shape) :
          /\ mixture' = MixtureInit(cat, "normal", normal)
          /\ last' = [op |-> "mixture_init", raised |-> FALSE]
    /\ UNCHANGED normal

\* mixture.sample(sample_shape)
CallMixtureSample ==
    /\ last.op = "idle"
    /\ mixture.built
    /\ \E sample_shape \in SampleShapes, seed \in Seeds :
          LET components == Deref(mixture.components_distribution)
              drawn == CategoricalSample(mixture.mixture_distribution, sample_shape, seed)
          IN  last' = [op |-> "mixture_sample", sample_shape |-> sample_shape,
                       seed |-> seed, drawn |-> drawn, mixture_mask |-> PadMask(drawn),
                       out |-> MixtureSample(mixture, components, sample_shape, seed,
                                  Noise(ExtendedShape(components, sample_shape), seed))]
    /\ UNCHANGED <<normal, mixture>>

\* mixture.log_prob(value)
CallMixtureLogProb ==
    /\ last.op = "idle"
    /\ mixture.built
    /\ \E value \in MixtureValues(mixture.batch_shape) :
          last' = [op |-> "mixture_log_prob", value |-> value,
                   out |-> MixtureLogProb(mixture,
                              Deref(mixture.components_distribution), value)]
    /\ UNCHANGED <<normal, mixture>>

\* The call returns (or its exception reaches the caller).
Return ==
    /\ last.op # "idle"
    /\ last' = Idle
    /\ UNCHANGED <<normal, mixture>>

Next ==
    \/ CallNormalInit
    \/ CallExpand
    \/ CallSample
    \/ CallRsample
    \/ CallLogProb
    \/ CallCdf
    \/ CallIcdf
    \/ CallEntropy
    \/ CallMixtureInit
    \/ CallMixtureSample
    \/ CallMixtureLogProb
    \/ Return

Spec == Init /\ [][Next]_vars

(* ------------------------------ the claims ---------------------------- *)

Components == Deref(mixture.components_distribution)
MixtureLogits == CategoricalLogits(mixture.mixture_distribution)
ComponentCount == mixture.batch_shape[Len(mixture.batch_shape)]
AllButLast(sh) == SubSeq(sh, 1, Len(sh) - 1)

\* The mixture distribution has one outcome per component and one batch
\* element per batch element of the components.
WellFormedMixture ==
    /\ mixture.built
    /\ mixture.batch_shape # <<>>
    /\ mixture.mixture_distribution.weights.shape = mixture.batch_shape

\* The log-density of the number v under a normal with the given loc and scale.
LogDensity(v, loc, scale) ==
    SubV(SubV(MulV(Fin(-500), SquareV(DivV(SubV(v, loc), scale))), LogV(scale)), Fin(919))

\* A value laid out [batch, event, sample] for components laid out
\* [batch, event, component].
C1_Case ==
    /\ last.op = "mixture_log_prob"
    /\ WellFormedMixture
    /\ Len(mixture.batch_shape) = 3
    /\ Len(last.value.shape) = 3
    /\ last.value.shape[1] = mixture.batch_shape[1]
    /\ last.value.shape[2] = mixture.batch_shape[2]

\* C1: for a value [B, D, S] and components [B, D, M], log_prob returns a
\* tensor of shape [B, D, S] whose entry (b, d, s) is the log-sum-exp over m of
\* logits[b, d, m] plus the log-density of value[b, d, s] under component
\* (b, d, m): the axis reduced is the component axis.
C1_LogProbIsLogSumExpOverComponents ==
    C1_Case =>
        /\ last.out.ok
        /\ last.out.shape = last.value.shape
        /\ \A idx \in Indices(last.value.shape) :
              last.out.data[idx] =
                  LogSumExpV([m \in 1..ComponentCount |->
                      AddV(MixtureLogits.data[<<idx[1], idx[2], m>>],
                           LogDensity(last.value.data[idx],
                                      Components.loc.data[<<idx[1], idx[2], m>>],
                                      Components.scale.data[<<idx[1], idx[2], m>>]))])

C1_Witness ==
    /\ C1_Case
    /\ last.out.ok
    /\ last.value.shape = <<2, 2, 2>>
    /\ mixture.batch_shape = <<2, 2, 2>>
    /\ last.out.data[<<2, 1, 2>>] # last.out.data[<<1, 2, 2>>]

\* C2: sample(sampleShape) returns a tensor of shape
\* sampleShape ++ batchShape[:-1] ++ eventShape.
C2_SampleShape ==
    (last.op = "mixture_sample" /\ WellFormedMixture) =>
        /\ last.out.ok
        /\ last.out.shape =
              last.sample_shape \o AllButLast(mixture.batch_shape) \o mixture.event_shape

\* C3: every constructed mixture has as many mixture outcomes as the last
\* batch axis of its components has elements.
C3_ConstructedMixtureMatches ==
    mixture.built =>
        /\ mixture.batch_shape # <<>>
        /\ ComponentCount = mixture.mixture_distribution.outcomes

\* The two leading axes of a 3-axis value against the components' batch axes
\* before the component axis.
ValueAxes == <<last.value.shape[1], last.value.shape[2]>>

SameAxes(a, b) ==
    \A k \in 1..Min(Len(a), Len(b)) : DimFromRight(a, k) = DimFromRight(b, k)

\* C4 as stated: log_prob fails for every value that does not have 3 axes
\* and for every 3-axis value whose batch or event axis size differs from the
\* components' corresponding batch axis size.
C4_FailsOnEveryShapeDifference ==
    (/\ last.op = "mixture_log_prob"
     /\ \/ Len(last.value.shape) # 3
        \/ ~SameAxes(ValueAxes, AllButLast(mixture.batch_shape)))
    => ~last.out.ok

\* C4, amended: log_prob fails for every value that does not have 3 axes and
\* for every 3-axis value with a batch or event axis whose size differs from
\* the components' corresponding batch axis size while neither size is 1.
C4_FailsOnUnbroadcastableValue ==
    (/\ last.op = "mixture_log_prob"
     /\ \/ Len(last.value.shape) # 3
        \/ ~Broadcastable(ValueAxes, AllButLast(mixture.batch_shape)))
    => ~last.out.ok

C4_Witness ==
    /\ last.op = "mixture_log_prob"
    /\ WellFormedMixture
    /\ Len(mixture.batch_shape) = 3
    /\ Len(last.value.shape) = 3
    /\ ~Broadcastable(ValueAxes, AllButLast(mixture.batch_shape))
    /\ ~last.out.ok

\* An element outside the open interval (0, 1).
OutsideUnit(a) == ~(IsFin(a) /\ a.v > 0 /\ a.v < Milli(1))
SomeOutsideUnit(t) == \E idx \in DOMAIN t.data : OutsideUnit(t.data[idx])

\* C5: with validation enabled icdf fails for every value with an element
\* outside (0, 1) and succeeds for every value inside; with validation
\* disabled it never raises.
C5_IcdfValidatesUnitInterval ==
    (last.op = "icdf" /\ Broadcastable(last.value.shape, normal.batch_shape)) =>
        /\ (normal.validate_args /\ SomeOutsideUnit(last.value)) => ~last.out.ok
        /\ (normal.validate_args /\ ~SomeOutsideUnit(last.value)) => last.out.ok
        /\ ~normal.validate_args => last.out.ok

NonPositive(a) == (IsFin(a) /\ a.v <= 0) \/ (IsInf(a) /\ a.v < 0)

\* C6: construction fails when loc and scale do not broadcast and, with
\* validation enabled, when an element of scale is <= 0; with validation
\* disabled a non-positive scale is accepted.  On success the batch shape is
\* empty for two numbers and the broadcast shape otherwise; on failure there
\* is no instance.
C6_Construction ==
    last.op = "init" =>
        LET compatible == Broadcastable(last.loc.t.shape, last.scale.t.shape)
            bad_scale == \E idx \in DOMAIN last.scale.t.data :
                             NonPositive(last.scale.t.data[idx])
        IN  /\ ~compatible => last.raised
            /\ (last.validate_args /\ bad_scale) => last.raised
            /\ (compatible /\ ~last.validate_args) => ~last.raised
            /\ last.raised => ~normal.built
            /\ ~last.raised =>
                  /\ normal.built
                  /\ normal.validate_args = last.validate_args
                  /\ normal.batch_shape =
                        IF last.loc.num /\ last.scale.num THEN <<>>
                        ELSE BroadcastShape(last.loc.t.shape, last.scale.t.shape)
                  /\ normal.loc.shape =
                        BroadcastShape(last.loc.t.shape, last.scale.t.shape)
                  /\ normal.scale.shape = normal.loc.shape

C6_Witness ==
    /\ last.op = "init"
    /\ last.validate_args
    /\ last.raised
    /\ ~last.scale.num
    /\ Broadcastable(last.loc.t.shape, last.scale.t.shape)

\* C7: expand returns an instance whose loc and scale are the source's
\* broadcast to the new batch shape, with the source's validation flag, and
\* without validating the arguments again.
C7_Expand ==
    (last.op = "expand" /\ ~last.raised) =>
        /\ last.new.batch_shape = last.batch_shape
        /\ last.new.loc.shape = last.batch_shape
        /\ last.new.scale.shape = last.batch_shape
        /\ \A idx \in Indices(last.batch_shape) :
              /\ last.new.loc.data[idx] =
                    normal.loc.data[BroadcastIndex(normal.loc.shape, idx)]
              /\ last.new.scale.data[idx] =
                    normal.scale.data[BroadcastIndex(normal.scale.shape, idx)]
        /\ last.new.validate_args = normal.validate_args
        /\ ~last.ran

C7_Witness ==
    /\ last.op = "expand"
    /\ ~last.raised
    /\ normal.validate_args
    /\ last.batch_shape # normal.batch_shape
    /\ normal.batch_shape # <<>>

\* A mixture of one component.
SingleComponent == WellFormedMixture /\ ComponentCount = 1

\* C8, log_prob: the mixture's log_prob of a value is the component
\* distribution's own log_prob of it.
C8_LogProbReduces ==
    (/\ last.op = "mixture_log_prob"
     /\ SingleComponent
     /\ Len(last.value.shape) = 3
     /\ SameAxes(ValueAxes, AllButLast(mixture.batch_shape)))
    => LET own == NormalLogProb(Components, last.value)
       IN  /\ last.out.ok
           /\ last.out.shape = last.value.shape
           /\ \A idx \in Indices(last.value.shape) :
                 last.out.data[idx] = own.data[BroadcastIndex(own.shape, idx)]

\* C8, sample: the mixture's sample is the component distribution's
\* reparameterized sample without its component axis.
C8_SampleReduces ==
    (last.op = "mixture_sample" /\ SingleComponent)
    => LET own == NormalRsample(Components, last.sample_shape,
                      Noise(ExtendedShape(Components, last.sample_shape), last.seed))
       IN  /\ last.out.ok
           /\ last.out.shape = AllButLast(own.shape)
           /\ \A idx \in Indices(last.out.shape) :
                 last.out.data[idx] = own.data[Append(idx, 1)]

\* C8: a single-component mixture reduces to its component distribution, in
\* log_prob and in sample.
C8_SingleComponentReduces == C8_LogProbReduces /\ C8_SampleReduces

\* C9: no call changes a distribution object: the Normal_ keeps its loc,
\* scale, batch shape and validation flag, the mixture its two distributions
\* and its shapes, also when the call raises.
C9_Immutable ==
    [][/\ normal.built => normal' = normal
       /\ mixture.built => mixture' = mixture]_vars

C9_Witness ==
    /\ last.op = "expand"
    /\ ~last.raised
    /\ last.new.batch_shape # normal.batch_shape
    /\ mixture.built

\* C10 as stated: a 3-axis mask [sample, batch, component] becomes
\* [sample, batch, 1, component]; any other mask is used unchanged.
C10_AxisBeforeComponent ==
    last.op = "mixture_sample" =>
        IF Rank(last.drawn) = 3
        THEN last.mixture_mask.shape =
                 <<last.drawn.shape[1], last.drawn.shape[2], 1, last.drawn.shape[3]>>
        ELSE last.mixture_mask = last.drawn

\* C10, amended: a 3-axis mask [a, b, c] becomes [a, 1, b, c], the new axis
\* directly after the first one, with the same elements; any other mask is
\* used unchanged.
C10_AxisAfterFirst ==
    last.op = "mixture_sample" =>
        IF Rank(last.drawn) = 3
        THEN /\ last.mixture_mask.shape =
                    <<last.drawn.shape[1], 1, last.drawn.shape[2], last.drawn.shape[3]>>
             /\ \A idx \in Indices(last.drawn.shape) :
                    last.mixture_mask.data[<<idx[1], 1, idx[2], idx[3]>>] =
                        last.drawn.data[idx]
        ELSE last.mixture_mask = last.drawn

C10_Witness ==
    /\ last.op = "mixture_sample"
    /\ last.drawn.shape = <<2, 2, 2>>
    /\ last.mixture_mask.shape = <<2, 1, 2, 2>>

====
